---- MODULE Spec2Model ----
(***************************************************************************)
(* Dispatch-and-fallback resolution of gpflow.expectations: the facade     *)
(* functions of expectations.py and the mean-function formulas registered  *)
(* by mean_functions.py.                                                   *)
(*                                                                         *)
(* Arrays are nested tuples of integers.  The quadrature hint nghp is a    *)
(* natural number, 0 standing for Python's None (no hint given).           *)
(***************************************************************************)
EXTENDS Integers, Sequences, FiniteSets, TLC

VARIABLES
    registry,    \* expectation_dispatcher: set of [pat, fn]
    imported,    \* number of register() decorators of mean_functions.py applied so far
    qregistry,   \* quadrature_expectation_dispatcher: set of [pat, fn]
    stack,       \* active calls of expectation(), innermost last
    call,        \* the top-level call in progress or just finished
    result,      \* outcome of the finished top-level call
    invoked,     \* implementations invoked on behalf of the top-level call
    consulted    \* look-ups of the quadrature registry made by expectation()

vars == <<registry, imported, qregistry, stack, call, result, invoked, consulted>>

(***************************************************************************)
(* Bounds of the model.                                                    *)
(***************************************************************************)
NumSamples == 1     \* N: rows of mu
InputDim == 2       \* D: dimension of x
OutDim == 1         \* Q: output dimension of the mean functions
MaxVal == 1         \* entries of mu, cov, A, b range over 0..MaxVal
MaxConst == 4       \* entries of a Constant's c range over 0..MaxConst
MaxRank == 5        \* cov.ndim of a raw (mu, cov) pair ranges over 0..MaxRank
MaxNghp == 1        \* nghp ranges over 0..MaxNghp

(***************************************************************************)
(* The type hierarchy that keys dispatch.                                  *)
(***************************************************************************)
DistTypes == {"DiagonalGaussian", "Gaussian", "MarkovGaussian"}

Parent(t) ==
    CASE t \in DistTypes -> "ProbabilityDistribution"
      [] t = "Identity" -> "Linear"
      [] t \in {"Linear", "Constant", "Composite"} -> "MeanFunction"
      [] OTHER -> "object"

RECURSIVE issubclass(_, _)
issubclass(t, a) ==
    IF t = a THEN TRUE
    ELSE IF t = "object" THEN FALSE
    ELSE issubclass(Parent(t), a)

\* The types an operand, a feature and a distribution can have at run time.
ObjTypes == {"NoneType", "Identity", "Linear", "Constant", "Composite", "Kernel"}
FeatTypes == {"NoneType", "InducingPoints"}
Keys == DistTypes \X ObjTypes \X FeatTypes \X ObjTypes \X FeatTypes

(***************************************************************************)
(* The dispatcher: covariant matching and most-specific selection.         *)
(***************************************************************************)
Matches(pat, key) == \A i \in 1..5 : issubclass(key[i], pat[i])

MoreSpecific(a, b) == a # b /\ \A i \in 1..5 : issubclass(a[i], b[i])

Overlap(a, b) == \E k \in Keys : Matches(a, k) /\ Matches(b, k)

Matching(reg, key) == {e \in reg : Matches(e.pat, key)}

MostSpecific(reg, key) ==
    {e \in Matching(reg, key) :
        \A f \in Matching(reg, key) : f.pat = e.pat \/ MoreSpecific(e.pat, f.pat)}

NotFound == "NotFound"
Ambiguous == "AmbiguousDispatch"

resolve(reg, key) ==
    IF Matching(reg, key) = {} THEN NotFound
    ELSE IF MostSpecific(reg, key) = {} THEN Ambiguous
    ELSE (CHOOSE e \in MostSpecific(reg, key) : TRUE).fn

\* register(*types)(fn): a later registration of the same pattern replaces the earlier.
register(reg, pat, fn) == {e \in reg : e.pat # pat} \cup {[pat |-> pat, fn |-> fn]}

(***************************************************************************)
(* The registrations of mean_functions.py, in the order the decorators are *)
(* applied on import (the decorator nearest the def first).  Every formula *)
(* is called _E in the source; here each carries the line of its def.      *)
(***************************************************************************)
Pat(p, o1, f1, o2, f2) == <<p, o1, f1, o2, f2>>

\* The registrations without that of the Identity x Identity formula.
Registrations_NoIdentityIdentity ==
    << [pat |-> Pat("Gaussian", "Constant", "NoneType", "NoneType", "NoneType"), fn |-> "_E:14"],
       [pat |-> Pat("Gaussian", "Linear", "NoneType", "NoneType", "NoneType"), fn |-> "_E:14"],
       [pat |-> Pat("Gaussian", "Constant", "NoneType", "Constant", "NoneType"), fn |-> "_E:26"],
       [pat |-> Pat("Gaussian", "Constant", "NoneType", "MeanFunction", "NoneType"), fn |-> "_E:38"],
       [pat |-> Pat("Gaussian", "MeanFunction", "NoneType", "Constant", "NoneType"), fn |-> "_E:52"],
       [pat |-> Pat("Gaussian", "Identity", "NoneType", "Linear", "NoneType"), fn |-> "_E:78"],
       [pat |-> Pat("Gaussian", "Linear", "NoneType", "Identity", "NoneType"), fn |-> "_E:96"],
       [pat |-> Pat("Gaussian", "Linear", "NoneType", "Linear", "NoneType"), fn |-> "_E:114"] >>

\* The registrations with the Constant x Constant formula registered last, after
\* the two general formulas it disambiguates.
Registrations_ConstantConstantLast ==
    << [pat |-> Pat("Gaussian", "Constant", "NoneType", "NoneType", "NoneType"), fn |-> "_E:14"],
       [pat |-> Pat("Gaussian", "Linear", "NoneType", "NoneType", "NoneType"), fn |-> "_E:14"],
       [pat |-> Pat("Gaussian", "Constant", "NoneType", "MeanFunction", "NoneType"), fn |-> "_E:38"],
       [pat |-> Pat("Gaussian", "MeanFunction", "NoneType", "Constant", "NoneType"), fn |-> "_E:52"],
       [pat |-> Pat("Gaussian", "Identity", "NoneType", "Identity", "NoneType"), fn |-> "_E:66"],
       [pat |-> Pat("Gaussian", "Identity", "NoneType", "Linear", "NoneType"), fn |-> "_E:78"],
       [pat |-> Pat("Gaussian", "Linear", "NoneType", "Identity", "NoneType"), fn |-> "_E:96"],
       [pat |-> Pat("Gaussian", "Linear", "NoneType", "Linear", "NoneType"), fn |-> "_E:114"],
       [pat |-> Pat("Gaussian", "Constant", "NoneType", "Constant", "NoneType"), fn |-> "_E:26"] >>

Registrations ==
    << [pat |-> Pat("Gaussian", "Constant", "NoneType", "NoneType", "NoneType"), fn |-> "_E:14"],
       [pat |-> Pat("Gaussian", "Linear", "NoneType", "NoneType", "NoneType"), fn |-> "_E:14"],
       [pat |-> Pat("Gaussian", "Constant", "NoneType", "Constant", "NoneType"), fn |-> "_E:26"],
       [pat |-> Pat("Gaussian", "Constant", "NoneType", "MeanFunction", "NoneType"), fn |-> "_E:38"],
       [pat |-> Pat("Gaussian", "MeanFunction", "NoneType", "Constant", "NoneType"), fn |-> "_E:52"],
       [pat |-> Pat("Gaussian", "Identity", "NoneType", "Identity", "NoneType"), fn |-> "_E:66"],
       [pat |-> Pat("Gaussian", "Identity", "NoneType", "Linear", "NoneType"), fn |-> "_E:78"],
       [pat |-> Pat("Gaussian", "Linear", "NoneType", "Identity", "NoneType"), fn |-> "_E:96"],
       [pat |-> Pat("Gaussian", "Linear", "NoneType", "Linear", "NoneType"), fn |-> "_E:114"] >>

\* The quadrature registries the model runs against.
QuadratureRegistries ==
    { {},
      {[pat |-> Pat("object", "object", "object", "object", "object"), fn |-> "_quad:any"]},
      {[pat |-> Pat("Gaussian", "MeanFunction", "NoneType", "MeanFunction", "NoneType"),
        fn |-> "_quad:mm"]},
      {[pat |-> Pat("object", "object", "object", "object", "object"), fn |-> "_quad:any"],
       [pat |-> Pat("Gaussian", "MeanFunction", "NoneType", "MeanFunction", "NoneType"),
        fn |-> "_quad:mm"]} }

(***************************************************************************)
(* Values: distributions, operands, arrays, outcomes.                      *)
(***************************************************************************)
\* The covariance array, of any rank: its shape and its entries in row-major order.
NdArray(shape, data) == [shape |-> shape, data |-> data]
ndim(a) == Len(a.shape)
At3(a, n, i, j) == a.data[((n - 1) * a.shape[2] + (i - 1)) * a.shape[3] + j]

\* A ProbabilityDistribution object.
Dist(type, mu, cov) == [tuple |-> FALSE, type |-> type, mu |-> mu, cov |-> cov]

\* A raw (mu, cov) tuple.
Raw(mu, cov) == [tuple |-> TRUE, type |-> "tuple", mu |-> mu, cov |-> cov]

Obj(type, A, b, c) == [type |-> type, A |-> A, b |-> b, c |-> c]
NoneObj == Obj("NoneType", <<>>, <<>>, <<>>)
NoFeat == [type |-> "NoneType"]

\* An operand as the caller passes it: a bare object or an (object, feature) tuple.
Bare(o) == [tuple |-> FALSE, obj |-> o, feat |-> NoFeat]
Pair(o, f) == [tuple |-> TRUE, obj |-> o, feat |-> f]

Arr(x) == [kind |-> "array", arr |-> x]
Raise(exc) == [kind |-> "error", exc |-> exc]
NoOutcome == [kind |-> "none"]

RECURSIVE SumUpTo(_, _)
SumUpTo(f, k) == IF k = 0 THEN 0 ELSE f[k] + SumUpTo(f, k - 1)
Sum(f) == SumUpTo(f, Len(f))

\* a[:, :, None] * b[:, None, :]
OuterPerSample(a, b) ==
    [n \in 1..Len(a) |-> [q \in 1..Len(a[n]) |-> [z \in 1..Len(b[n]) |-> a[n][q] * b[n][z]]]]

\* The same product when one factor is the result of a quadrature implementation.
Times(u, v) ==
    IF u.kind = "array" /\ v.kind = "array" THEN Arr(OuterPerSample(u.arr, v.arr))
    ELSE [kind |-> "product", l |-> u, r |-> v]

(***************************************************************************)
(* Collaborators of the formulas: the mean functions' __call__.            *)
(***************************************************************************)
MeanCall(mean, X) ==
    CASE mean.type = "Identity" -> X
      [] mean.type = "Linear" ->
            [n \in 1..Len(X) |-> [q \in 1..Len(mean.b) |->
                Sum([i \in 1..Len(X[n]) |-> X[n][i] * mean.A[i][q]]) + mean.b[q]]]
      [] mean.type = "Constant" -> [n \in 1..Len(X) |-> mean.c]

(***************************************************************************)
(* expectations.py: _init_expectation.                                     *)
(***************************************************************************)
classes == <<"DiagonalGaussian", "Gaussian", "MarkovGaussian">>

\* Python's list[i] as a 1-based position in the list, 0 when it raises IndexError.
PyIndex(list, i) ==
    IF 0 <= i /\ i < Len(list) THEN i + 1
    ELSE IF -Len(list) <= i /\ i < 0 THEN Len(list) + i + 1
    ELSE 0

_init_expectation(p, obj1, obj2) ==
    LET at == IF p.tuple THEN PyIndex(classes, ndim(p.cov) - 2) ELSE 1
        q == IF p.tuple /\ at # 0 THEN Dist(classes[at], p.mu, p.cov) ELSE p
    IN [err |-> IF at = 0 THEN "IndexError" ELSE "none",
        p |-> q,
        obj1 |-> obj1.obj, feat1 |-> IF obj1.tuple THEN obj1.feat ELSE NoFeat,
        obj2 |-> obj2.obj, feat2 |-> IF obj2.tuple THEN obj2.feat ELSE NoFeat]

KeyOf(f) == <<f.p.type, f.obj1.type, f.feat1.type, f.obj2.type, f.feat2.type>>

(***************************************************************************)
(* mean_functions.py: the formulas.  f carries p, obj1 (mean1), obj2       *)
(* (mean2); sub is the value of the formula's inner expectation() call.    *)
(***************************************************************************)
\* p.cov + (p.mu[:, :, None] * p.mu[:, None, :]); a 0-d cov broadcasts.
e_xxt(p) ==
    [n \in 1..Len(p.mu) |-> [i \in 1..Len(p.mu[n]) |-> [j \in 1..Len(p.mu[n]) |->
        (IF ndim(p.cov) = 0 THEN p.cov.data[1] ELSE At3(p.cov, n, i, j))
        + p.mu[n][i] * p.mu[n][j]]]]

E_mean(f) == Arr(MeanCall(f.obj1, f.p.mu))

\* The Constant x Constant formula with mean1 in the place of mean2.
E_constant_constant_Mean1Twice(f) ==
    Arr(OuterPerSample(MeanCall(f.obj1, f.p.mu), MeanCall(f.obj1, f.p.mu)))

E_constant_constant(f) ==
    Arr(OuterPerSample(MeanCall(f.obj1, f.p.mu), MeanCall(f.obj2, f.p.mu)))

E_constant_meanfunction(f, sub) == Times(Arr(MeanCall(f.obj1, f.p.mu)), sub)

E_meanfunction_constant(f, sub) == Times(sub, Arr(MeanCall(f.obj2, f.p.mu)))

E_identity_identity(f) == Arr(e_xxt(f.p))

E_identity_linear(f) ==
    LET mu == f.p.mu
        xx == e_xxt(f.p)
        m2 == f.obj2
    IN Arr([n \in 1..Len(mu) |-> [d \in 1..Len(mu[n]) |-> [q \in 1..Len(m2.b) |->
            Sum([j \in 1..Len(mu[n]) |-> xx[n][d][j] * m2.A[j][q]])
            + mu[n][d] * m2.b[q]]]])

E_linear_identity(f) ==
    LET mu == f.p.mu
        xx == e_xxt(f.p)
        m1 == f.obj1
    IN Arr([n \in 1..Len(mu) |-> [q \in 1..Len(m1.b) |-> [d \in 1..Len(mu[n]) |->
            Sum([i \in 1..Len(mu[n]) |-> m1.A[i][q] * xx[n][i][d]])
            + m1.b[q] * mu[n][d]]]])

\* The Linear x Linear formula without its term b1 mu^T A2.
E_linear_linear_NoB1Term(f) ==
    LET mu == f.p.mu
        xx == e_xxt(f.p)
        m1 == f.obj1
        m2 == f.obj2
        I(n) == 1..Len(mu[n])
        e_A1t_xxt_A2(n, q, z) ==
            Sum([i \in I(n) |-> Sum([j \in I(n) |-> m1.A[i][q] * xx[n][i][j] * m2.A[j][z]])])
        e_A1t_x_b2t(n, q, z) == Sum([i \in I(n) |-> m1.A[i][q] * mu[n][i] * m2.b[z]])
        e_b1_b2t(q, z) == m1.b[q] * m2.b[z]
    IN Arr([n \in 1..Len(mu) |-> [q \in 1..Len(m1.b) |-> [z \in 1..Len(m2.b) |->
            e_A1t_xxt_A2(n, q, z) + e_A1t_x_b2t(n, q, z) + e_b1_b2t(q, z)]]])

E_linear_linear(f) ==
    LET mu == f.p.mu
        xx == e_xxt(f.p)
        m1 == f.obj1
        m2 == f.obj2
        I(n) == 1..Len(mu[n])
        e_A1t_xxt_A2(n, q, z) ==
            Sum([i \in I(n) |-> Sum([j \in I(n) |-> m1.A[i][q] * xx[n][i][j] * m2.A[j][z]])])
        e_A1t_x_b2t(n, q, z) == Sum([i \in I(n) |-> m1.A[i][q] * mu[n][i] * m2.b[z]])
        e_b1_xt_A2(n, q, z) == Sum([i \in I(n) |-> m1.b[q] * mu[n][i] * m2.A[i][z]])
        e_b1_b2t(q, z) == m1.b[q] * m2.b[z]
    IN Arr([n \in 1..Len(mu) |-> [q \in 1..Len(m1.b) |-> [z \in 1..Len(m2.b) |->
            e_A1t_xxt_A2(n, q, z) + e_A1t_x_b2t(n, q, z) + e_b1_xt_A2(n, q, z)
            + e_b1_b2t(q, z)]]])

\* The formulas that call expectation() for a sub-expectation.
Recursive == {"_E:38", "_E:52"}

\* The inner call made on both mean functions again.
SubCall_BothOperands(f) ==
    [p |-> f.p, obj1 |-> Bare(f.obj1), obj2 |-> Bare(f.obj2), nghp |-> 0]

\* The arguments of that inner call: expectation(p, mean2) / expectation(p, mean1).
SubCall(f) ==
    [p |-> f.p,
     obj1 |-> IF f.fn = "_E:38" THEN Bare(f.obj2) ELSE Bare(f.obj1),
     obj2 |-> Bare(NoneObj),
     nghp |-> 0]

\* A formula without inner call, run to its return value.
Formula(f) ==
    CASE f.fn = "_E:14" -> E_mean(f)
      [] f.fn = "_E:26" -> E_constant_constant(f)
      [] f.fn = "_E:66" -> E_identity_identity(f)
      [] f.fn = "_E:78" -> E_identity_linear(f)
      [] f.fn = "_E:96" -> E_linear_identity(f)
      [] f.fn = "_E:114" -> E_linear_linear(f)

\* A formula with inner call, resumed with the inner call's value.
FormulaAfter(f, sub) ==
    CASE f.fn = "_E:38" -> E_constant_meanfunction(f, sub)
      [] f.fn = "_E:52" -> E_meanfunction_constant(f, sub)

(***************************************************************************)
(* The quadrature side.                                                    *)
(***************************************************************************)
\* A quadrature implementation is a black box: a function of all its arguments.
QuadratureValue(fn, p, obj1, feat1, obj2, feat2, nghp) ==
    [kind |-> "quad", fn |-> fn, p |-> p, obj1 |-> obj1, feat1 |-> feat1,
     obj2 |-> obj2, feat2 |-> feat2, nghp |-> nghp]

\* dispatcher.registered_fn(*types): the implementation, or the exception raised.
registered_fn(reg, key) == resolve(reg, key)

IsFn(r) == r # NotFound /\ r # Ambiguous

LookupError(r) == IF r = NotFound THEN Raise("NotImplementedError") ELSE Raise(Ambiguous)

\* The handler calling the quadrature implementation without the caller's nghp.
ExceptOutcome_NoHint(f, qreg) ==
    LET fn == registered_fn(qreg, KeyOf(f))
    IN IF IsFn(fn)
       THEN QuadratureValue(fn, f.p, f.obj1, f.feat1, f.obj2, f.feat2, 0)
       ELSE LookupError(fn)

\* expectation(), lines 63-65: the handler of NotImplementedError.
ExceptOutcome(f, qreg) ==
    LET fn == registered_fn(qreg, KeyOf(f))
    IN IF IsFn(fn)
       THEN QuadratureValue(fn, f.p, f.obj1, f.feat1, f.obj2, f.feat2, f.nghp)
       ELSE LookupError(fn)

\* quadrature_expectation(p, obj1, obj2, nghp), whole.
quadrature_expectation(a, qreg) ==
    LET i == _init_expectation(a.p, a.obj1, a.obj2)
        fn == registered_fn(qreg, KeyOf(i))
    IN IF i.err # "none" THEN Raise(i.err)
       ELSE IF IsFn(fn)
       THEN QuadratureValue(fn, i.p, i.obj1, i.feat1, i.obj2, i.feat2, a.nghp)
       ELSE LookupError(fn)

(***************************************************************************)
(* The inputs of the calls.                                                *)
(***************************************************************************)
Vec(n, S) == [1..n -> S]
Mat(r, c, S) == [1..r -> [1..c -> S]]
Vals == 0..MaxVal

mu0 == [n \in 1..NumSamples |-> [i \in 1..InputDim |-> i]]
eye == NdArray(<<NumSamples, InputDim, InputDim>>,
               [k \in 1..(NumSamples * InputDim * InputDim) |->
                    IF ((k - 1) \div InputDim) % InputDim = (k - 1) % InputDim
                    THEN 1 ELSE 0])

\* Some array of the given rank; of rank 3, the identity covariance of each sample.
CovOfRank(r) ==
    IF r = 3 THEN eye
    ELSE IF r = 2 THEN NdArray(<<NumSamples, InputDim>>,
                               [k \in 1..(NumSamples * InputDim) |-> 1])
    ELSE NdArray([k \in 1..r |-> 1], <<1>>)

Linear0 == Obj("Linear", [i \in 1..InputDim |-> [q \in 1..OutDim |-> 1]],
               [q \in 1..OutDim |-> 1], <<>>)
Constant0 == Obj("Constant", <<>>, <<>>, [q \in 1..OutDim |-> 3])
InducingPoints0 == [type |-> "InducingPoints"]

\* Every shape of call, one value of each type.
TypeDists ==
    {Dist(classes[k], mu0, CovOfRank(k + 1)) : k \in 1..3}
    \cup {Raw(mu0, CovOfRank(r)) : r \in 0..MaxRank}

TypeOperands ==
    {Bare(NoneObj), Bare(Obj("Identity", <<>>, <<>>, <<>>)), Bare(Linear0), Bare(Constant0),
     Bare(Obj("Composite", <<>>, <<>>, <<>>)), Bare(Obj("Kernel", <<>>, <<>>, <<>>)),
     Pair(Obj("Kernel", <<>>, <<>>, <<>>), InducingPoints0)}

TypeInputs == [p : TypeDists, obj1 : TypeOperands, obj2 : TypeOperands, nghp : 0..MaxNghp]

\* Every array within the bounds, for the calls on two Linear and on two Constant
\* mean functions.
Gaussians ==
    {Dist("Gaussian", m, NdArray(<<NumSamples, InputDim, InputDim>>, c)) :
        m \in Mat(NumSamples, InputDim, Vals),
        c \in Vec(NumSamples * InputDim * InputDim, Vals)}

Linears ==
    {Obj("Linear", A, b, <<>>) : A \in Mat(InputDim, OutDim, Vals), b \in Vec(OutDim, Vals)}

Constants == {Obj("Constant", <<>>, <<>>, c) : c \in Vec(OutDim, 0..MaxConst)}

LinearInputs ==
    {[p |-> p, obj1 |-> Bare(m1), obj2 |-> Bare(m2), nghp |-> 0] :
        p \in Gaussians, m1 \in Linears, m2 \in Linears}

ConstantInputs ==
    {[p |-> p, obj1 |-> Bare(m1), obj2 |-> Bare(m2), nghp |-> 0] :
        p \in Gaussians
              \cup {Dist("DiagonalGaussian", m, CovOfRank(2)) :
                        m \in Mat(NumSamples, InputDim, Vals)}
              \cup {Dist("MarkovGaussian", mu0, CovOfRank(4))},
        m1 \in Constants, m2 \in Constants}

MixedInputs ==
    {[p |-> Dist("Gaussian", mu0, eye), obj1 |-> Bare(m1), obj2 |-> Bare(m2), nghp |-> 0] :
        m1 \in {Constant0, Linear0}, m2 \in {Constant0, Linear0}}

ArrayInputs == LinearInputs \cup ConstantInputs \cup MixedInputs

(***************************************************************************)
(* The state machine.                                                      *)
(***************************************************************************)
NoCall == [fn |-> "none"]

NewFrame(a) ==
    [args |-> a, nghp |-> a.nghp, p |-> a.p,
     obj1 |-> a.obj1.obj, feat1 |-> NoFeat, obj2 |-> a.obj2.obj, feat2 |-> NoFeat,
     pc |-> "init", fn |-> "none", sub |-> NoOutcome, out |-> NoOutcome, fallbacks |-> 0]

Top == stack[Len(stack)]
Depth == Len(stack)
SetTop(f) == [stack EXCEPT ![Len(stack)] = f]

Ready == imported = Len(Registrations)
Idle == stack = <<>>

Init ==
    /\ registry = {}
    /\ imported = 0
    /\ qregistry \in QuadratureRegistries
    /\ stack = <<>>
    /\ call = NoCall
    /\ result = NoOutcome
    /\ invoked = {}
    /\ consulted = {}

\* Importing mean_functions.py applies the next register() decorator.
Import ==
    /\ imported < Len(Registrations)
    /\ registry' = register(registry, Registrations[imported + 1].pat,
                            Registrations[imported + 1].fn)
    /\ imported' = imported + 1
    /\ UNCHANGED <<qregistry, stack, call, result, invoked, consulted>>

\* A caller enters expectation(p, obj1, obj2, nghp).
ExpectationCall(inputs) ==
    /\ Ready /\ Idle /\ call = NoCall
    /\ \E a \in inputs :
        /\ stack' = <<NewFrame(a)>>
        /\ call' = [fn |-> "expectation", args |-> a]
    /\ UNCHANGED <<registry, imported, qregistry, result, invoked, consulted>>

\* A caller runs quadrature_expectation(p, obj1, obj2, nghp).
QuadratureExpectationCall(inputs) ==
    /\ Ready /\ Idle /\ call = NoCall
    /\ \E a \in inputs :
        LET out == quadrature_expectation(a, qregistry)
        IN /\ call' = [fn |-> "quadrature_expectation", args |-> a]
           /\ result' = out
           /\ invoked' = IF out.kind = "quad"
                         THEN {[fn |-> out.fn, key |-> KeyOf(out), nghp |-> out.nghp,
                                depth |-> 1]}
                         ELSE {}
    /\ UNCHANGED <<registry, imported, qregistry, stack, consulted>>

\* expectation(), line 56.
InitExpectation ==
    /\ ~Idle /\ Top.pc = "init"
    /\ LET i == _init_expectation(Top.args.p, Top.args.obj1, Top.args.obj2)
       IN stack' = SetTop(
            IF i.err # "none"
            THEN [Top EXCEPT !.pc = "done", !.out = Raise(i.err)]
            ELSE [Top EXCEPT !.pc = "dispatch", !.p = i.p, !.obj1 = i.obj1,
                             !.feat1 = i.feat1, !.obj2 = i.obj2, !.feat2 = i.feat2])
    /\ UNCHANGED <<registry, imported, qregistry, call, result, invoked, consulted>>

\* expectation(), lines 58-59, and the entry into the implementation of line 60.
Dispatch ==
    /\ ~Idle /\ Top.pc = "dispatch"
    /\ LET fn == registered_fn(registry, KeyOf(Top))
       IN /\ stack' = SetTop(
                IF IsFn(fn) THEN [Top EXCEPT !.pc = "run", !.fn = fn]
                ELSE IF fn = NotFound THEN [Top EXCEPT !.pc = "except"]
                ELSE [Top EXCEPT !.pc = "done", !.out = Raise(Ambiguous)])
          /\ invoked' = IF IsFn(fn)
                        THEN invoked \cup {[fn |-> fn, key |-> KeyOf(Top),
                                            nghp |-> Top.nghp, depth |-> Depth]}
                        ELSE invoked
    /\ UNCHANGED <<registry, imported, qregistry, call, result, consulted>>

\* The body of the formula: to its return, or to its inner expectation() call.
RunFormula ==
    /\ ~Idle /\ Top.pc = "run"
    /\ stack' = IF Top.fn \in Recursive
                THEN Append(SetTop([Top EXCEPT !.pc = "await"]), NewFrame(SubCall(Top)))
                ELSE SetTop([Top EXCEPT !.pc = "done", !.out = Formula(Top)])
    /\ UNCHANGED <<registry, imported, qregistry, call, result, invoked, consulted>>

\* expectation() returns or raises: to the caller, or into the formula that called it.
Return ==
    /\ ~Idle /\ Top.pc = "done"
    /\ IF Depth = 1
       THEN /\ result' = Top.out
            /\ stack' = <<>>
       ELSE /\ result' = result
            /\ stack' = [SubSeq(stack, 1, Depth - 1) EXCEPT
                            ![Depth - 1] = [@ EXCEPT !.pc = "resume", !.sub = Top.out]]
    /\ UNCHANGED <<registry, imported, qregistry, call, invoked, consulted>>

\* The formula goes on after its inner call, inside the try of line 57: a
\* NotImplementedError goes to the handler of line 61, any other exception out.
Resume ==
    /\ ~Idle /\ Top.pc = "resume"
    /\ stack' = SetTop(
            IF Top.sub.kind = "error"
            THEN IF Top.sub.exc = "NotImplementedError"
                 THEN [Top EXCEPT !.pc = "except"]
                 ELSE [Top EXCEPT !.pc = "done", !.out = Top.sub]
            ELSE [Top EXCEPT !.pc = "done", !.out = FormulaAfter(Top, Top.sub)])
    /\ UNCHANGED <<registry, imported, qregistry, call, result, invoked, consulted>>

\* expectation(), lines 61-65.
Except ==
    /\ ~Idle /\ Top.pc = "except"
    /\ LET out == ExceptOutcome(Top, qregistry)
       IN /\ stack' = SetTop([Top EXCEPT !.pc = "done", !.out = out,
                                         !.fallbacks = @ + 1])
          /\ invoked' = IF out.kind = "quad"
                        THEN invoked \cup {[fn |-> out.fn, key |-> KeyOf(Top),
                                            nghp |-> out.nghp, depth |-> Depth]}
                        ELSE invoked
          /\ consulted' = consulted \cup
                {[key |-> KeyOf(Top), depth |-> Depth, found |-> out.kind = "quad"]}
    /\ UNCHANGED <<registry, imported, qregistry, call, result>>

\* The caller drops the outcome; the next call starts afresh.
Discard ==
    /\ Idle /\ call # NoCall
    /\ call' = NoCall
    /\ result' = NoOutcome
    /\ invoked' = {}
    /\ consulted' = {}
    /\ UNCHANGED <<registry, imported, qregistry, stack>>

Step == InitExpectation \/ Dispatch \/ RunFormula \/ Return \/ Resume \/ Except

Next ==
    \/ Import
    \/ ExpectationCall(TypeInputs)
    \/ QuadratureExpectationCall(TypeInputs)
    \/ Step
    \/ Discard

Spec == Init /\ [][Next]_vars

\* Once entered, a call is run on: Python runs a call to its return or its raise.
LiveSpec == Spec /\ WF_vars(Step)

NextArrays ==
    \/ Import
    \/ ExpectationCall(ArrayInputs)
    \/ Step
    \/ Discard

SpecArrays == Init /\ [][NextArrays]_vars

(***************************************************************************)
(* Properties.                                                             *)
(***************************************************************************)
\* The top-level call of expectation() has returned or raised.
DoneExpectation == Idle /\ call # NoCall /\ call.fn = "expectation"

CallInit == _init_expectation(call.args.p, call.args.obj1, call.args.obj2)
CallKey == KeyOf(CallInit)

Frames == {stack[i] : i \in 1..Len(stack)}

\* C1: a call of expectation() whose key has no match in the dispatch registry ends
\* with exactly the outcome (value or error) of quadrature_expectation() on the same
\* inputs and the same quadrature registry.
C1_FallbackIsQuadrature ==
    (DoneExpectation /\ CallInit.err = "none"
        /\ registered_fn(registry, CallKey) = NotFound)
    => result = quadrature_expectation(call.args, qregistry)

C1_Witness ==
    /\ DoneExpectation /\ CallInit.err = "none"
    /\ registered_fn(registry, CallKey) = NotFound
    /\ result.kind = "quad" /\ result.nghp = 1
    /\ result.feat1.type = "InducingPoints"

\* C2: the quadrature registry is consulted for a key only if the dispatch registry
\* reported NotFound for that key, and when the dispatch registry resolves the key of
\* the call, the outcome of the call is that of the analytical implementation, never
\* that of a quadrature implementation.
C2_QuadratureOnlyOnNotFound ==
    /\ \A c \in consulted : registered_fn(registry, c.key) = NotFound
    /\ (DoneExpectation /\ CallInit.err = "none" /\ IsFn(registered_fn(registry, CallKey)))
        => result.kind # "quad"

\* C3: when both registries miss the key of any call of expectation(), top-level or
\* made by a formula, the top-level call ends in an error.
C3_DoubleMissIsFatal ==
    (DoneExpectation
        /\ \E c \in consulted : ~c.found /\ registered_fn(registry, c.key) = NotFound)
    => result.kind = "error"

\* C4: a raw (mu, cov) pair becomes DiagonalGaussian, Gaussian, MarkovGaussian for cov
\* of rank 2, 3, 4, any other rank raises and builds no distribution, and a
\* distribution object is passed on unchanged.
C4_RankSelectsVariant ==
    \A f \in Frames :
        f.pc # "init" =>
            LET r == ndim(f.args.p.cov)
            IN IF ~f.args.p.tuple THEN f.p = f.args.p
               ELSE IF r \in 2..4
               THEN f.p = Dist(classes[r - 1], f.args.p.mu, f.args.p.cov)
               ELSE f.pc = "done" /\ f.out.kind = "error" /\ f.p = f.args.p

\* C5: every implementation invoked on behalf of a call, at any depth, receives the
\* nghp of that call.
C5_HintReachesEveryImplementation ==
    call # NoCall => \A i \in invoked : i.nghp = call.args.nghp

\* C6: the implementation a call resolves to is never that of a matching pattern B
\* when a matching pattern A is more specific than B; (Gaussian, Identity, None,
\* Identity, None) resolves to the Identity x Identity formula and (Gaussian,
\* Constant, None, Constant, None) to the Constant x Constant formula.
C6_MostSpecificWins ==
    \A f \in Frames :
        f.pc \notin {"init", "dispatch"} =>
            /\ \A a \in registry, b \in registry :
                (Matches(a.pat, KeyOf(f)) /\ Matches(b.pat, KeyOf(f))
                    /\ MoreSpecific(a.pat, b.pat))
                => f.fn # b.fn
            /\ KeyOf(f) = Pat("Gaussian", "Identity", "NoneType", "Identity", "NoneType")
                => f.fn = "_E:66"
            /\ KeyOf(f) = Pat("Gaussian", "Constant", "NoneType", "Constant", "NoneType")
                => f.fn = "_E:26"

C6_Witness ==
    \E f \in Frames :
        /\ f.pc = "run" /\ f.fn = "_E:66"
        /\ Cardinality(Matching(registry, KeyOf(f))) = 4

\* C7 as claimed: no two registered patterns overlap while neither is more specific
\* than the other.
C7_NoIncomparableOverlap ==
    \A a \in registry, b \in registry :
        (a.pat # b.pat /\ Overlap(a.pat, b.pat))
        => (MoreSpecific(a.pat, b.pat) \/ MoreSpecific(b.pat, a.pat))

\* C7 as amended: at every point of the import, every key some registered pattern
\* matches has a unique most specific matching pattern.  (Stated of the states
\* between calls: no step of a call changes the registry.)
C7_EveryKeyUnambiguous ==
    (Idle /\ call = NoCall) => \A k \in Keys : registered_fn(registry, k) # Ambiguous

C7_Witness ==
    /\ Ready
    /\ \E a \in registry, b \in registry :
        /\ Overlap(a.pat, b.pat)
        /\ ~MoreSpecific(a.pat, b.pat) /\ ~MoreSpecific(b.pat, a.pat) /\ a.pat # b.pat
    /\ registered_fn(registry,
            Pat("Gaussian", "Constant", "NoneType", "Constant", "NoneType")) = "_E:26"

Symmetric(cov) ==
    \A n \in 1..cov.shape[1], i \in 1..cov.shape[2], j \in 1..cov.shape[3] :
        At3(cov, n, i, j) = At3(cov, n, j, i)

\* The last two axes of an N x Q1 x Q2 array exchanged.
Transpose(x) ==
    [n \in 1..Len(x) |-> [z \in 1..Len(x[n][1]) |-> [q \in 1..Len(x[n]) |-> x[n][q][z]]]]

LinearLinearCall ==
    /\ DoneExpectation
    /\ call.args.p.type = "Gaussian"
    /\ call.args.obj1.obj.type = "Linear" /\ call.args.obj2.obj.type = "Linear"

\* The same call with the two mean functions exchanged.
Swapped == [p |-> call.args.p, obj1 |-> call.args.obj2.obj, obj2 |-> call.args.obj1.obj]

ConstantConstantCall ==
    /\ DoneExpectation
    /\ call.args.obj1.obj.type = "Constant" /\ call.args.obj2.obj.type = "Constant"

\* N copies of the outer product of c1 and c2.
OuterOfConstants ==
    LET c1 == call.args.obj1.obj.c
        c2 == call.args.obj2.obj.c
    IN Arr([n \in 1..Len(call.args.p.mu) |->
            [q \in 1..Len(c1) |-> [z \in 1..Len(c2) |-> c1[q] * c2[z]]]])

C10_Bounded ==
    /\ Depth <= 2
    /\ \A i \in 1..Len(stack) :
        /\ stack[i].fallbacks <= 1
        /\ i > 1 => /\ stack[i].args.obj2 = Bare(NoneObj)
                    /\ stack[i].fn \notin Recursive

\* C10: every call of expectation() terminates, within those bounds.
C10_Terminates == []C10_Bounded /\ (~Idle ~> Idle)

C10_Witness == Depth = 2 /\ Top.pc = "done" /\ Top.fallbacks = 1

====
